---- MODULE Spec2Model ----
(***************************************************************************)
(* pixelmatch-go: the concurrent tiled image comparison Diff               *)
(* (src/pixelmatch.go, second package body, lines 365-774).                *)
(*                                                                         *)
(* An image is its descriptor (concrete type and bounds, origin (0,0)) and *)
(* its pixels.  Pixels are kept sparsely: every pixel of both inputs is    *)
(* Background except at the positions of `marks`, which give the colour of *)
(* the pixel in the first and in the second image.  The output buffer is   *)
(* kept as the map of the pixels Diff has written.                         *)
(*                                                                         *)
(* Real numbers are kept exactly, as signed decimal numbers of several     *)
(* digits in base 10^4, computed from the source's decimal coefficients.   *)
(* The program only compares them, and the rounding of float64 (below      *)
(* 10^-12 here) is smaller than every gap between two compared values:     *)
(* distinct lumas differ by 10^-8 or more, and no squared distance of two  *)
(* colours is within 10^-4 of the default threshold 352.15.                *)
(***************************************************************************)
EXTENDS Integers, Naturals, Sequences, FiniteSets, TLC

VARIABLES
    imgs,       \* <<img1, img2, output>>: [kind, w, h] of each argument of Diff
    marks,      \* pixel position -> <<colour in img1, colour in img2>>
    out,        \* output buffer: pixel position -> colour written by Diff
    writers,    \* pixel position -> set of task ids that wrote the pixel
    pc,         \* position of Diff's own goroutine
    containerW, \* Diff local
    containerH, \* Diff local
    x0,         \* outer loop variable
    y0,         \* inner loop variable
    tasks,      \* sequence of launched processSubImage goroutines
    diff,       \* the shared counter updated with atomic.AddUint64
    wg,         \* the sync.WaitGroup counter
    ret         \* what Diff returned: [count, err, detail]

vars == <<imgs, marks, out, writers, pc, containerW, containerH, x0, y0,
          tasks, diff, wg, ret>>

----------------------------------------------------------------------------
(* Bounds of the model *)

\* cap on the number of goroutines the dispatch loops may launch
MaxLaunch == 4
\* largest number of marked (non-background) pixel positions
MaxMarks == 2

(* Program constants *)

\* containerW := 2000 / containerH := 2000
containerMax == 2000
\* float64(35215.0): maximum of the YIQ difference metric
maxYIQ == 35215
\* fully opaque alpha, and the white channel value used by blend
opaque == 255

----------------------------------------------------------------------------
(* Colours: [4]uint8 as <<r, g, b, a>> *)

Black      == <<0, 0, 0, 255>>
Gray100    == <<100, 100, 100, 255>>
Background == <<128, 128, 128, 255>>
Palette    == {Black, Gray100, Background}

Abs(v) == IF v < 0 THEN -v ELSE v

\* options := defaultOptions; threshold and alpha in tenths
defaultOptions ==
    [ thresholdTenths |-> 1,
      includeAA       |-> TRUE,
      alphaTenths     |-> 1,
      aaColor         |-> <<255, 255, 0, 255>>,
      diffColor       |-> <<255, 0, 0, 255>>,
      diffMask        |-> TRUE ]

colorEq(c1, c2) == c1 = c2

\* uint8 arithmetic: 255 + (c-255)*a, wrapping modulo 256
blend(c, a) == (opaque + (c - opaque) * a) % 256

\* a pixel as colorDelta sees it after `if c[3] < 255 { c[3] /= 255; blend... }`
Composite(c) ==
    IF c[4] < opaque
    THEN LET a == c[4] \div opaque
         IN  <<blend(c[1], a), blend(c[2], a), blend(c[3], a), a>>
    ELSE c

----------------------------------------------------------------------------
(* float64 values, kept exactly.  A value is [neg, mag]: its sign and its  *)
(* magnitude as seven digits in base 10^4, least significant first.  Zero  *)
(* is never negative.  The unit of the last place is 10^-8 for luma and    *)
(* chroma and 10^-20 for the squared distance.                             *)

\* float64 zero, the initial min and max of antialiased
RZero == [neg |-> FALSE, mag |-> <<0, 0, 0, 0, 0, 0, 0>>]

\* the value hi * 10^4 + lo of two signed integers
Exact(hi, lo) ==
    LET H   == hi + (lo \div 10000)
        L   == lo % 10000
        neg == H < 0
        Hm  == IF neg THEN (IF L = 0 THEN -H ELSE -H - 1) ELSE H
        Lm  == IF neg /\ L # 0 THEN 10000 - L ELSE L
    IN  [neg |-> neg, mag |-> <<Lm, Hm % 10000, Hm \div 10000, 0, 0, 0, 0>>]

RIsZero(a) == a.mag = RZero.mag

MagLess(m, n) == \E k \in 1..7 : m[k] < n[k] /\ \A j \in (k+1)..7 : m[j] = n[j]

\* a < b
RLess(a, b) ==
    IF a.neg
    THEN IF b.neg THEN MagLess(b.mag, a.mag) ELSE TRUE
    ELSE IF b.neg THEN FALSE ELSE MagLess(a.mag, b.mag)

\* math.Abs
RAbs(a) == [a EXCEPT !.neg = FALSE]

\* unary minus
RNeg(a) == IF RIsZero(a) THEN a ELSE [a EXCEPT !.neg = ~a.neg]

\* the digits of the natural number  sum of s[k] * 10^(4(k-1))
Carry(s) ==
    LET T[k \in 0..7] == IF k = 0 THEN 0 ELSE (s[k] + T[k-1]) \div 10000
    IN  [k \in 1..7 |-> (s[k] + T[k-1]) % 10000]

\* m * m for m below 10^12 (three digits), as seven numbers below 4 * 10^4
\* that Carry turns into its digits
MagSquare(m) ==
    LET c == <<m[1] * m[1], 2 * m[1] * m[2], 2 * m[1] * m[3] + m[2] * m[2],
               2 * m[2] * m[3], m[3] * m[3], 0, 0>>
    IN  [k \in 1..7 |-> (c[k] % 10000) + (IF k = 1 THEN 0 ELSE c[k-1] \div 10000)]

\* luma and chroma with the source's 8-digit coefficients, in units of
\* 10^-8: the value is hi * 10^4 + lo
rgb2y(r, g, b) ==
    [hi |-> 2988 * r + 5866 * g + 1144 * b, lo |-> 9531 * r + 2247 * g + 8223 * b]
rgb2i(r, g, b) ==
    [hi |-> 5959 * r - 2741 * g - 3218 * b, lo |-> 7799 * r - 7610 * g - 189 * b]
rgb2q(r, g, b) ==
    [hi |-> 2114 * r - 5226 * g + 3111 * b, lo |-> 7017 * r - 1711 * g + 4694 * b]

\* v1 - v2 of two luma or chroma values
Minus(v1, v2) == Exact(v1.hi - v2.hi, v1.lo - v2.lo)

\* 0.5053*y*y + 0.299*i*i + 0.1957*q*q, units of 10^-20
Distance(y, i, q) ==
    LET ysq == MagSquare(y.mag)
        isq == MagSquare(i.mag)
        qsq == MagSquare(q.mag)
    IN  [neg |-> FALSE,
         mag |-> Carry([k \in 1..7 |-> 5053 * ysq[k] + 2990 * isq[k] + 1957 * qsq[k]])]

\* colorDelta(c1, c2, yOnly): yOnly -> the luma difference y1 - y2 (units
\* of 10^-8), otherwise the squared YIQ distance (units of 10^-20),
\* negated when y1 > y2
colorDelta(c1, c2, yOnly) ==
    IF colorEq(c1, c2) THEN RZero
    ELSE LET p1 == Composite(c1)
             p2 == Composite(c2)
             y1 == rgb2y(p1[1], p1[2], p1[3])
             y2 == rgb2y(p2[1], p2[2], p2[3])
             y  == Minus(y1, y2)
             i  == Minus(rgb2i(p1[1], p1[2], p1[3]), rgb2i(p2[1], p2[2], p2[3]))
             q  == Minus(rgb2q(p1[1], p1[2], p1[3]), rgb2q(p2[1], p2[2], p2[3]))
             delta == Distance(y, i, q)
         IN  IF yOnly THEN y
             ELSE IF RLess(RZero, y) THEN RNeg(delta) ELSE delta

\* maxDelta := 35215.0 * threshold * threshold, units of 10^-20
maxDelta(options) ==
    LET n == maxYIQ * options.thresholdTenths * options.thresholdTenths * 100
    IN  [neg |-> FALSE,
         mag |-> Carry(<<0, 0, 0, 0, n, 0, 0>>)]

\* grayColor(c, alpha): uint8(rgb2y) blended by uint8(alpha*a/255)
grayColor(c, options) ==
    LET y   == rgb2y(c[1], c[2], c[3])
        val == blend(((y.hi + (y.lo \div 10000)) \div 10000) % 256,
                     (options.alphaTenths * c[4]) \div (10 * opaque))
    IN  <<val, val, val, 255>>

----------------------------------------------------------------------------
(* Images *)

Img1 == imgs[1]
Img2 == imgs[2]
Output == imgs[3]

\* h = output.Bounds().Max.Y, w = output.Bounds().Max.X
PlaneW == Output.w
PlaneH == Output.h

\* image bounds as a rectangle with origin (0,0)
Bounds(img) == [x0 |-> 0, y0 |-> 0, x1 |-> img.w, y1 |-> img.h]

\* image.Rectangle.Empty
RectEmpty(r) == r.x0 >= r.x1 \/ r.y0 >= r.y1

\* image.Rectangle.Eq: equal, or both empty
RectEq(r, s) == r = s \/ (RectEmpty(r) /\ RectEmpty(s))

\* image.Point.In
InRect(p, r) == r.x0 <= p[1] /\ p[1] < r.x1 /\ r.y0 <= p[2] /\ p[2] < r.y1

\* results of the functions that can panic: [val, fault], fault when a nil
\* dereference or a read outside a buffer panics before the function returns
No     == [val |-> FALSE, fault |-> FALSE]
Yes    == [val |-> TRUE, fault |-> FALSE]
Panics == [val |-> FALSE, fault |-> TRUE]

\* img.Bounds() on a nil pointer held by a non-nil interface (a nil
\* *image.NRGBA output, a typed nil input) reads the Rect field through nil
BoundsFaults(img) == img.kind = "nilptr"

\* img == nil || img.Bounds().Empty(): img == nil is true of the nil
\* interface only
isEmptyImg(img) ==
    IF img.kind = "nil" THEN Yes
    ELSE IF BoundsFaults(img) THEN Panics
    ELSE IF RectEmpty(Bounds(img)) THEN Yes ELSE No

\* getColor with the second input read at the transposed position
getColorTransposed(i, p) ==
    LET q == IF i = 2 THEN <<p[2], p[1]>> ELSE p
    IN  IF q \in DOMAIN marks THEN marks[q][i] ELSE Background

\* getColor(img, x, y) for the first (i = 1) or the second (i = 2) input
getColor(i, p) == IF p \in DOMAIN marks THEN marks[p][i] ELSE Background

\* checkImages, first loop: the indices (0-based, as indexImgStr takes them)
\* of the empty images, in order
emptyImgs(is) ==
    LET F[i \in 0..3] ==
            IF i = 0 THEN <<>>
            ELSE IF isEmptyImg(is[i]).val THEN Append(F[i-1], i - 1) ELSE F[i-1]
    IN  F[3]

\* the second loop leaving at the first pair of different bounds
notEqualFirstOnly(is) ==
    IF ~RectEq(Bounds(is[1]), Bounds(is[2]))
    THEN <<[a |-> 0, aBounds |-> Bounds(is[1]), b |-> 1, bBounds |-> Bounds(is[2])]>>
    ELSE IF ~RectEq(Bounds(is[2]), Bounds(is[3]))
         THEN <<[a |-> 1, aBounds |-> Bounds(is[2]), b |-> 2, bBounds |-> Bounds(is[3])]>>
         ELSE <<>>

\* checkImages, second loop: one entry per i with imgs[i] and imgs[i+1] of
\* different bounds, naming both images and both bounds
notEqualImgsBySize(is) ==
    LET F[i \in 0..2] ==
            IF i = 0 THEN <<>>
            ELSE IF ~RectEq(Bounds(is[i]), Bounds(is[i+1]))
                 THEN Append(F[i-1], [a |-> i - 1, aBounds |-> Bounds(is[i]),
                                      b |-> i,     bBounds |-> Bounds(is[i+1])])
                 ELSE F[i-1]
    IN  F[2]

\* checkImages: the error and what its message lists; "panic" when
\* isEmptyImg panics in the first loop
checkImages(is) ==
    IF \E i \in 1..3 : isEmptyImg(is[i]).fault
    THEN [err |-> "panic", detail |-> <<>>]
    ELSE IF Len(emptyImgs(is)) > 0
    THEN [err |-> "ErrEmptyImage", detail |-> emptyImgs(is)]
    ELSE IF Len(notEqualImgsBySize(is)) > 0
         THEN [err |-> "ErrImageSize", detail |-> notEqualImgsBySize(is)]
         ELSE [err |-> "nil", detail |-> <<>>]

----------------------------------------------------------------------------
(* Neighbourhood classifiers *)

Max2(a, b) == IF a > b THEN a ELSE b
Min2(a, b) == IF a < b THEN a ELSE b

\* the clamped 3x3 window around p, centre excluded, in the order of
\* `for x := x0; x <= x2; x++ { for y := y0; y <= y2; y++ {`
Window(p, width, height) ==
    LET wx0 == Max2(p[1] - 1, 0)
        wy0 == Max2(p[2] - 1, 0)
        wx2 == Min2(p[1] + 1, width - 1)
        wy2 == Min2(p[2] + 1, height - 1)
        nx  == wx2 - wx0 + 1
        ny  == wy2 - wy0 + 1
        all == [k \in 1..(nx * ny) |->
                   <<wx0 + ((k - 1) \div ny), wy0 + ((k - 1) % ny)>>]
    IN  SelectSeq(all, LAMBDA q : q # p)

\* zeroes = 1 when the window is clamped on some side
WindowSeed(p, width, height) ==
    IF  \/ p[1] = Max2(p[1] - 1, 0) \/ p[1] = Min2(p[1] + 1, width - 1)
        \/ p[2] = Max2(p[2] - 1, 0) \/ p[2] = Min2(p[2] + 1, height - 1)
    THEN 1 ELSE 0

\* getColor(a, x, y) on the sub-image of rectangle rect: PixOffset is
\* (y - Min.Y)*Stride + (x - Min.X)*4 into the pixels that start at rect's
\* first pixel, and the slice expression panics on a negative index
ReadFaults(rect, p) == (p[2] - rect.y0) * PlaneW + (p[1] - rect.x0) < 0

\* one iteration of hasManySiblings' loops, at the neighbour q of p
SiblingStep(s, i, p, q, rect) ==
    IF s.stop \/ s.fault THEN s
    ELSE IF ReadFaults(rect, p) \/ ReadFaults(rect, q) THEN [s EXCEPT !.fault = TRUE]
    ELSE IF colorEq(getColor(i, p), getColor(i, q))
         THEN [s EXCEPT !.zeroes = @ + 1, !.stop = (s.zeroes + 1 > 2)]
         ELSE [s EXCEPT !.stop = (s.zeroes > 2)]

\* hasManySiblings(a, x1, y1, width, height) on input image i seen through
\* the sub-image of rect
hasManySiblings(i, p, rect, width, height) ==
    LET win == Window(p, width, height)
        Scan[k \in 0..Len(win)] ==
            IF k = 0
            THEN [zeroes |-> WindowSeed(p, width, height), stop |-> FALSE, fault |-> FALSE]
            ELSE SiblingStep(Scan[k-1], i, p, win[k], rect)
        r == Scan[Len(win)]
    IN  [val |-> r.stop, fault |-> r.fault]

\* one iteration of antialiased's loops, at the neighbour q whose read
\* panics when faults, delta the brightness delta to the centre
AdjacentStep(s, delta, q, faults) ==
    IF s.stop \/ s.fault THEN s
    ELSE IF faults THEN [s EXCEPT !.fault = TRUE]
    ELSE IF RIsZero(delta)
         THEN [s EXCEPT !.zeroes = @ + 1, !.stop = (s.zeroes + 1 > 2)]
    ELSE IF RLess(delta, s.min)
         THEN [s EXCEPT !.min = delta, !.minP = q]
    ELSE IF RLess(s.max, delta)
         THEN [s EXCEPT !.max = delta, !.maxP = q]
    ELSE s

\* hasManySiblings(a, ..) && hasManySiblings(b, ..) of two results
BothManySiblings(ha, hb) ==
    IF ha.fault THEN Panics ELSE IF ha.val THEN hb ELSE No

\* what antialiased returns after its loops ended in r
AntialiasedReturn(r, ia, ib, rect, width, height) ==
    IF r.fault THEN Panics
    ELSE IF r.stop THEN No
    ELSE IF RIsZero(r.min) \/ RIsZero(r.max) THEN No
    ELSE LET darkest == BothManySiblings(hasManySiblings(ia, r.minP, rect, width, height),
                                         hasManySiblings(ib, r.minP, rect, width, height))
         IN  IF darkest.fault THEN Panics
             ELSE IF darkest.val THEN Yes
             ELSE BothManySiblings(hasManySiblings(ia, r.maxP, rect, width, height),
                                   hasManySiblings(ib, r.maxP, rect, width, height))

\* antialiased(a, b, x1, y1, width, height): the centre is read from image
\* ia, its neighbours from image ib, both through the sub-image of rect.
\* Under defaultOptions (includeAA) the pixel loop never calls it.
antialiased(ia, ib, p, rect, width, height) ==
    LET win == Window(p, width, height)
        Scan[k \in 0..Len(win)] ==
            IF k = 0
            THEN [zeroes |-> WindowSeed(p, width, height), stop |-> FALSE, fault |-> FALSE,
                  min |-> RZero, max |-> RZero, minP |-> <<0, 0>>, maxP |-> <<0, 0>>]
            ELSE AdjacentStep(Scan[k-1],
                              colorDelta(getColor(ia, p), getColor(ib, win[k]), TRUE),
                              win[k],
                              ReadFaults(rect, p) \/ ReadFaults(rect, win[k]))
    IN  AntialiasedReturn(Scan[Len(win)], ia, ib, rect, width, height)

----------------------------------------------------------------------------
(* The body of processSubImage's pixel loop *)

NoWrite == <<>>

\* the branch of the pixel loop for a pixel above the threshold, aa the
\* result of the calls of antialiased
AboveEffect(aa, options) ==
    IF ~options.includeAA /\ aa.fault
    THEN [write |-> NoWrite, count |-> 0, fault |-> TRUE]
    ELSE IF ~options.includeAA /\ (aa.val \/ aa.val)
    THEN [write |-> IF ~options.diffMask THEN options.aaColor ELSE NoWrite,
          count |-> 0, fault |-> FALSE]
    ELSE [write |-> options.diffColor, count |-> 1, fault |-> FALSE]

\* what one iteration of the task of rectangle rect does at pixel p: the
\* colour it stores with output.SetNRGBA (NoWrite for none), what it adds
\* to containerDiff, and whether it panics instead
PixelEffect(p, rect, options) ==
    LET cc1 == getColor(1, p)
        cc2 == getColor(2, p)
    IN  IF RLess(maxDelta(options), RAbs(colorDelta(cc1, cc2, FALSE)))
        THEN AboveEffect(antialiased(1, 2, p, rect, PlaneW, PlaneH), options)
        ELSE [write |-> IF ~options.diffMask THEN grayColor(cc1, options) ELSE NoWrite,
              count |-> 0, fault |-> FALSE]

\* output.SetNRGBA(x, y, c): a store inside the buffer's rectangle only
SetNRGBA(buf, p, c) ==
    IF InRect(p, Bounds(Output)) THEN [q \in DOMAIN buf \cup {p} |-> IF q = p THEN c ELSE buf[q]]
    ELSE buf

----------------------------------------------------------------------------
(* Tiling *)

\* if containerW > w { containerW = w - 1 }
ContainerDim(d) == IF containerMax > d THEN d - 1 ELSE containerMax

\* the rectangle of the task launched at (x0, y0); y1 starts from
\* y0 + containerW as in the source.  x0 <= x1 <= w and y0 <= y1 <= h, so
\* image.Rect swaps nothing and SubImage's intersection clips nothing.
TileRect(tx0, ty0, cw, ch, w, h) ==
    LET tx1 == tx0 + cw
        ty1 == ty0 + cw
    IN  [x0 |-> tx0, y0 |-> ty0,
         x1 |-> IF tx1 + cw > w THEN w ELSE tx1,
         y1 |-> IF ty1 + ch > h THEN h ELSE ty1]

\* raster order of the pixel loop: y outer, x inner
RasterLess(p, q) == p[2] < q[2] \/ (p[2] = q[2] /\ p[1] < q[1])

RECURSIVE RasterSeq(_)
RasterSeq(S) ==
    IF S = {} THEN <<>>
    ELSE LET m == CHOOSE p \in S : \A q \in S \ {p} : RasterLess(p, q)
         IN  <<m>> \o RasterSeq(S \ {m})

\* the marked pixels a task meets, in the order its loops meet them; every
\* other pixel of its rectangle is Background in both inputs, where the
\* loop body stores nothing and counts nothing
Work(rect) == RasterSeq({p \in DOMAIN marks : InRect(p, rect)})

----------------------------------------------------------------------------
(* Inputs *)

\* widths and heights: empty, smaller than the maximum tile extent, equal
\* to it, an exact multiple of it, and one more than a multiple
Dims == {0, 1, 2, 3, containerMax, 2 * containerMax, 2 * containerMax + 1}

\* what the two image.Image arguments hold: the nil interface, a nil
\* pointer of an image type, an *image.NRGBA, and any other implementation
\* (such as *image.RGBA)
Kinds == {"nil", "nilptr", "NRGBA", "RGBA"}

\* the output argument is an *image.NRGBA: nil or an image
OutputKinds == {"nilptr", "NRGBA"}

\* how the bounds of the second image and of the output relate to the first
Variants == {"same", "wider", "taller", "empty"}

Resize(w, h, v) ==
    CASE v = "same"   -> [w |-> w, h |-> h]
      [] v = "wider"  -> [w |-> w + 1, h |-> h]
      [] v = "taller" -> [w |-> w, h |-> h + 1]
      [] v = "empty"  -> [w |-> 0, h |-> 0]

Image(kind, size) ==
    IF kind \in {"nil", "nilptr"} THEN [kind |-> kind, w |-> 0, h |-> 0]
    ELSE [kind |-> kind, w |-> size.w, h |-> size.h]

\* the pixel positions that may be marked: the first two pixels of the
\* diagonal and the last pixel of the plane
Probes(w, h) ==
    {p \in {<<0, 0>>, <<1, 1>>, <<w - 1, h - 1>>} :
        0 <= p[1] /\ p[1] < w /\ 0 <= p[2] /\ p[2] < h}

\* colours of a marked pixel in the two inputs
MarkColours == (Palette \X Palette) \ {<<Background, Background>>}

MarkSets(w, h) ==
    UNION {[P -> MarkColours] : P \in {Q \in SUBSET Probes(w, h) : Cardinality(Q) <= MaxMarks}}

\* pixels are read only when checkImages lets Diff through and both inputs
\* are *image.NRGBA
ReadsPixels(is) ==
    checkImages(is).err = "nil" /\ is[1].kind = "NRGBA" /\ is[2].kind = "NRGBA"

NoRet == [count |-> 0, err |-> "running", detail |-> <<>>]

Init ==
    /\ \E w \in Dims, h \in Dims, k1 \in Kinds, k2 \in Kinds, ko \in OutputKinds,
          v2 \in Variants, vo \in Variants :
          imgs = << Image(k1, [w |-> w, h |-> h]),
                    Image(k2, Resize(w, h, v2)),
                    Image(ko, Resize(w, h, vo)) >>
    /\ marks \in (IF ReadsPixels(imgs) THEN MarkSets(PlaneW, PlaneH) ELSE {<<>>})
    /\ out = <<>>
    /\ writers = <<>>
    /\ pc = "start"
    /\ containerW = 0
    /\ containerH = 0
    /\ x0 = 0
    /\ y0 = 0
    /\ tasks = <<>>
    /\ diff = 0
    /\ wg = 0
    /\ ret = NoRet

----------------------------------------------------------------------------
(* Diff's own goroutine *)

\* Diff, lines 489-558: checkImages, then the locals of the dispatch loops
DiffStart ==
    /\ pc = "start"
    /\ LET chk == checkImages(imgs)
       IN  IF chk.err = "panic"
           THEN /\ pc' = "panic"
                /\ UNCHANGED <<containerW, containerH, ret>>
           ELSE IF chk.err # "nil"
           THEN /\ pc' = "returned"
                /\ ret' = [count |-> 0, err |-> chk.err, detail |-> chk.detail]
                /\ UNCHANGED <<containerW, containerH>>
           ELSE /\ pc' = "outer"
                /\ containerH' = ContainerDim(PlaneH)
                /\ containerW' = ContainerDim(PlaneW)
                /\ ret' = ret
    /\ x0' = 0
    /\ UNCHANGED <<imgs, marks, out, writers, y0, tasks, diff, wg>>

\* for x0 := 0; x0 < w-containerW; ...: the loop test
OuterTest ==
    /\ pc = "outer"
    /\ IF x0 < PlaneW - containerW
       THEN pc' = "inner" /\ y0' = 0
       ELSE pc' = "wait" /\ y0' = y0
    /\ UNCHANGED <<imgs, marks, out, writers, containerW, containerH, x0, tasks,
                   diff, wg, ret>>

\* the receiver of SubImage is a nil *image.NRGBA when the type assertion
\* img.(*image.NRGBA) failed
SubImageFaults == Img1.kind # "NRGBA" \/ Img2.kind # "NRGBA"

\* one iteration of the inner loop: wg.Add(1), the rectangle, go processSubImage
Launch ==
    /\ pc = "inner"
    /\ y0 < PlaneH - containerH
    /\ ~SubImageFaults
    /\ Len(tasks) < MaxLaunch
    /\ wg' = wg + 1
    /\ tasks' = Append(tasks,
                  [rect  |-> TileRect(x0, y0, containerW, containerH, PlaneW, PlaneH),
                   k     |-> 0,
                   local |-> 0,
                   done  |-> FALSE])
    /\ y0' = y0 + containerH
    /\ UNCHANGED <<imgs, marks, out, writers, pc, containerW, containerH, x0, diff, ret>>

\* one iteration of the inner loop whose SubImage call dereferences nil
LaunchPanic ==
    /\ pc = "inner"
    /\ y0 < PlaneH - containerH
    /\ SubImageFaults
    /\ wg' = wg + 1
    /\ pc' = "panic"
    /\ UNCHANGED <<imgs, marks, out, writers, containerW, containerH, x0, y0, tasks,
                   diff, ret>>

\* the inner loop ends: x0 += containerW
InnerExit ==
    /\ pc = "inner"
    /\ ~(y0 < PlaneH - containerH)
    /\ x0' = x0 + containerW
    /\ pc' = "outer"
    /\ UNCHANGED <<imgs, marks, out, writers, containerW, containerH, y0, tasks,
                   diff, wg, ret>>

\* a Wait that does not block
WaitUnblockedAlways(counter) == TRUE

\* wg.Wait() unblocks when the counter is zero
WaitUnblocked(counter) == counter = 0

\* wg.Wait(); return diff, nil
WaitReturn ==
    /\ pc = "wait"
    /\ WaitUnblocked(wg)
    /\ pc' = "returned"
    /\ ret' = [count |-> diff, err |-> "nil", detail |-> <<>>]
    /\ UNCHANGED <<imgs, marks, out, writers, containerW, containerH, x0, y0, tasks,
                   diff, wg>>

----------------------------------------------------------------------------
(* The processSubImage goroutines *)

\* atomic.AddUint64(&diff, containerDiff)
AddUint64(total, delta) == total + delta

\* one iteration of the pixel loop of task t, at its next marked pixel; a
\* panic in the goroutine ends the program
ProcessPixel(t) ==
    /\ ~tasks[t].done
    /\ tasks[t].k < Len(Work(tasks[t].rect))
    /\ LET p  == Work(tasks[t].rect)[tasks[t].k + 1]
           e  == PixelEffect(p, tasks[t].rect, defaultOptions)
           sp == p
       IN  IF e.fault
           THEN pc' = "panic" /\ UNCHANGED <<tasks, out, writers>>
           ELSE /\ pc' = pc
                /\ tasks' = [tasks EXCEPT ![t].k = @ + 1, ![t].local = @ + e.count]
                /\ IF e.write # NoWrite
                   THEN /\ out' = SetNRGBA(out, sp, e.write)
                        /\ writers' = [q \in DOMAIN writers \cup {sp} |->
                                          IF q = sp
                                          THEN (IF sp \in DOMAIN writers THEN writers[sp] ELSE {})
                                               \cup {t}
                                          ELSE writers[q]]
                   ELSE UNCHANGED <<out, writers>>
    /\ UNCHANGED <<imgs, marks, containerW, containerH, x0, y0, diff, wg, ret>>

\* the loops of task t are over: the atomic add, then the deferred wg.Done()
TaskDone(t) ==
    /\ ~tasks[t].done
    /\ tasks[t].k = Len(Work(tasks[t].rect))
    /\ diff' = AddUint64(diff, tasks[t].local)
    /\ wg' = wg - 1
    /\ tasks' = [tasks EXCEPT ![t].done = TRUE]
    /\ UNCHANGED <<imgs, marks, out, writers, pc, containerW, containerH, x0, y0, ret>>

Next ==
    \/ DiffStart
    \/ OuterTest
    \/ Launch
    \/ LaunchPanic
    \/ InnerExit
    \/ WaitReturn
    \/ \E t \in DOMAIN tasks : ProcessPixel(t)
    \/ \E t \in DOMAIN tasks : TaskDone(t)

Spec == Init /\ [][Next]_vars

----------------------------------------------------------------------------
(* Definitions shared by the properties *)

\* Diff got past checkImages
InputsValid == checkImages(imgs).err = "nil"

\* the dispatch loops are over
Dispatched == pc = "wait" \/ (pc = "returned" /\ ret.err = "nil")

\* Diff returned a count with a nil error
ReturnedOk == pc = "returned" /\ ret.err = "nil"

RectArea(r) == IF RectEmpty(r) THEN 0 ELSE (r.x1 - r.x0) * (r.y1 - r.y0)

RectsOverlap(r, s) ==
    /\ ~RectEmpty(r) /\ ~RectEmpty(s)
    /\ r.x0 < s.x1 /\ s.x0 < r.x1 /\ r.y0 < s.y1 /\ s.y0 < r.y1

RectInside(r, s) == RectEmpty(r) \/ (s.x0 <= r.x0 /\ r.x1 <= s.x1 /\ s.y0 <= r.y0 /\ r.y1 <= s.y1)

Plane == Bounds(Output)

SumArea[n \in 0..Len(tasks)] ==
    IF n = 0 THEN 0 ELSE SumArea[n-1] + RectArea(tasks[n].rect)

SumLocal[n \in 0..Len(tasks)] ==
    IF n = 0 THEN 0 ELSE SumLocal[n-1] + tasks[n].local

\* the tasks whose rectangle holds pixel p
TilesOf(p) == {t \in DOMAIN tasks : InRect(p, tasks[t].rect)}

\* the pixels task t has been through
Visited(t) == {Work(tasks[t].rect)[j] : j \in 1..tasks[t].k}

\* a single sequential pass over every pixel of the plane: its count and
\* the buffer it leaves (Background pixels store and count nothing)
SeqPixels == {p \in DOMAIN marks : InRect(p, Plane)}

SeqCount == Cardinality({p \in SeqPixels : PixelEffect(p, Plane, defaultOptions).count = 1})

SeqOutput ==
    [p \in {q \in SeqPixels : PixelEffect(q, Plane, defaultOptions).write # NoWrite} |->
        PixelEffect(p, Plane, defaultOptions).write]

----------------------------------------------------------------------------
(* C1 *)

\* C1: once the dispatch loops are over for a non-empty plane, the launched
\* tile rectangles partition the plane: they lie inside it, no two overlap,
\* their areas add up to the area of the plane, every marked pixel is in
\* exactly one of them, and a plane smaller than the maximum tile extent in
\* both dimensions has exactly one tile, the whole plane.
TilesPartitionPlane ==
    (InputsValid /\ Dispatched) =>
        /\ \A t \in DOMAIN tasks : RectInside(tasks[t].rect, Plane)
        /\ \A t, u \in DOMAIN tasks : t # u => ~RectsOverlap(tasks[t].rect, tasks[u].rect)
        /\ SumArea[Len(tasks)] = RectArea(Plane)
        /\ \A p \in Probes(PlaneW, PlaneH) : Cardinality(TilesOf(p)) = 1
        /\ (PlaneW < containerMax /\ PlaneH < containerMax) =>
               (Len(tasks) = 1 /\ tasks[1].rect = Plane)

----------------------------------------------------------------------------
(* C2 *)

\* C2: when Diff returns for valid inputs, its count and the output buffer
\* are those of one sequential pass over every pixel of the plane.
TilingContentInvariant ==
    ReturnedOk => (ret.count = SeqCount /\ out = SeqOutput)

----------------------------------------------------------------------------
(* C3 *)

\* C3: the dispatch loops make progress, which is what bounds the number of
\* tasks they launch and lets Diff reach wg.Wait and return: every iteration
\* of the inner loop (a step of Diff that adds one to the wait group) moves
\* y0 forward and every iteration of the outer loop moves x0 forward.
DispatchLoopsAdvance ==
    [][ /\ (pc = "inner" /\ pc' = "inner" /\ wg' = wg + 1) => y0' > y0
        /\ (pc = "inner" /\ pc' = "outer") => x0' > x0 ]_vars

----------------------------------------------------------------------------
(* C4 *)

\* C4: every output pixel that was written was written by one task only,
\* and lies inside that task's tile rectangle.
WritesOwnTileOnly ==
    \A p \in DOMAIN writers :
        /\ Cardinality(writers[p]) <= 1
        /\ \A t \in writers[p] : InRect(p, tasks[t].rect)

----------------------------------------------------------------------------
(* C5 *)

\* C5: when Diff has returned a count, every launched task has completed
\* and the count is the sum of the local counts of all launched tasks.
ReturnsSumOfAllTasks ==
    ReturnedOk =>
        /\ \A t \in DOMAIN tasks : tasks[t].done /\ tasks[t].k = Len(Work(tasks[t].rect))
        /\ ret.count = SumLocal[Len(tasks)]
        /\ diff = ret.count

\* two tasks with a non-zero local count have been summed into the result
ReturnsSumOfAllTasksWitness ==
    /\ ReturnedOk
    /\ \E t, u \in DOMAIN tasks : t # u /\ tasks[t].local > 0 /\ tasks[u].local > 0
    /\ ret.count >= 2

----------------------------------------------------------------------------
(* C6 *)

IdenticalInputs == \A p \in DOMAIN marks : marks[p][1] = marks[p][2]

\* C6: when the two inputs are pixel-identical, nothing is ever counted,
\* the count Diff returns is 0 and no output pixel holds the diff colour.
IdenticalImagesNoDiff ==
    IdenticalInputs =>
        /\ diff = 0
        /\ \A t \in DOMAIN tasks : tasks[t].local = 0
        /\ pc = "returned" => ret.count = 0
        /\ \A p \in DOMAIN out : out[p] # defaultOptions.diffColor

\* identical inputs with a non-background pixel that a task has compared
IdenticalImagesNoDiffWitness ==
    /\ IdenticalInputs
    /\ ReturnedOk
    /\ \E t \in DOMAIN tasks : \E p \in Visited(t) : marks[p][1] # Background

----------------------------------------------------------------------------
(* C7 *)

AboveThreshold(p) ==
    RLess(maxDelta(defaultOptions), RAbs(colorDelta(getColor(1, p), getColor(2, p), FALSE)))

ClassifiedAA(p) == antialiased(1, 2, p, Plane, PlaneW, PlaneH).val

\* C7: a compared pixel above the threshold that the classifier classifies
\* as anti-aliased does not hold the diff colour, and the count Diff returns
\* is the number of compared pixels above the threshold that are not
\* anti-aliased.
AntiAliasedNotCounted ==
    /\ \A t \in DOMAIN tasks : \A p \in Visited(t) :
          (AboveThreshold(p) /\ ClassifiedAA(p)) =>
              (p \notin DOMAIN out \/ out[p] # defaultOptions.diffColor)
    /\ ReturnedOk =>
          ret.count = Cardinality({p \in UNION {Visited(t) : t \in DOMAIN tasks} :
                                      AboveThreshold(p) /\ ~ClassifiedAA(p)})

----------------------------------------------------------------------------
(* C8 *)

\* an image of zero area: no image at all, or empty bounds
HasNoPixels(img) == img.kind \in {"nil", "nilptr"} \/ RectEmpty(Bounds(img))

NoneEmpty == \A i \in 1..3 : ~HasNoPixels(imgs[i])

\* the pairs of images (0-based indices) whose bounds differ
DifferingPairs ==
    {pr \in {<<0, 1>>, <<1, 2>>, <<0, 2>>} :
        ~RectEq(Bounds(imgs[pr[1] + 1]), Bounds(imgs[pr[2] + 1]))}

AdjacentPairs == {<<0, 1>>, <<1, 2>>}

\* the pairs the error message lists
ListedPairs == {<<ret.detail[j].a, ret.detail[j].b>> : j \in 1..Len(ret.detail)}

ListedWithBounds ==
    \A j \in 1..Len(ret.detail) :
        /\ ret.detail[j].aBounds = Bounds(imgs[ret.detail[j].a + 1])
        /\ ret.detail[j].bBounds = Bounds(imgs[ret.detail[j].b + 1])

\* C8 as stated: with no image empty and some pair of different bounds,
\* Diff fails with ErrImageSize and the message lists every pair whose
\* bounds differ, with their dimensions.
SizeMismatchListsEveryPair ==
    (pc = "returned" /\ NoneEmpty /\ DifferingPairs # {}) =>
        /\ ret.err = "ErrImageSize"
        /\ ListedPairs = DifferingPairs
        /\ ListedWithBounds

\* C8 as amended: with no image empty and some pair of different bounds,
\* Diff fails with ErrImageSize and count 0, and the message lists, once
\* and in order, exactly the adjacent pairs (first/second, second/output)
\* whose bounds differ, with their dimensions; first/output is never listed.
SizeMismatchListsAdjacentPairs ==
    (pc = "returned" /\ NoneEmpty /\ DifferingPairs # {}) =>
        /\ ret.err = "ErrImageSize"
        /\ ret.count = 0
        /\ ListedPairs = DifferingPairs \cap AdjacentPairs
        /\ Len(ret.detail) = Cardinality(ListedPairs)
        /\ \A j \in 1..(Len(ret.detail) - 1) : ret.detail[j].a < ret.detail[j+1].a
        /\ ListedWithBounds

\* all three pairs differ and Diff has failed
SizeMismatchWitness ==
    /\ pc = "returned"
    /\ NoneEmpty
    /\ Cardinality(DifferingPairs) = 3
    /\ Len(ret.detail) = 2

----------------------------------------------------------------------------
(* C9 *)

PreconditionFails == \E i \in 1..3 : HasNoPixels(imgs[i]) \/ DifferingPairs # {}

\* C9: when an image is empty or the bounds are not all equal, Diff never
\* launches a task and never touches the output buffer, and it returns
\* count 0 with ErrEmptyImage (listing the empty images) or ErrImageSize.
PreconditionFailureNoEffect ==
    PreconditionFails =>
        /\ pc \in {"start", "returned"}
        /\ tasks = <<>> /\ wg = 0 /\ diff = 0
        /\ out = <<>> /\ writers = <<>>
        /\ pc = "returned" =>
              /\ ret.count = 0
              /\ ret.err = IF NoneEmpty THEN "ErrImageSize" ELSE "ErrEmptyImage"
              /\ ~NoneEmpty =>
                    {ret.detail[j] : j \in 1..Len(ret.detail)}
                        = {i - 1 : i \in {k \in 1..3 : HasNoPixels(imgs[k])}}

----------------------------------------------------------------------------
(* C10 *)

\* C10: for non-empty images of pairwise equal bounds, whatever the concrete
\* type of the inputs, Diff meets no runtime fault and, when it returns,
\* returns a nil error.
NoFaultOnValidInputs ==
    (NoneEmpty /\ DifferingPairs = {}) =>
        /\ pc # "panic"
        /\ pc = "returned" => ret.err = "nil"

----------------------------------------------------------------------------
(* C11: the blend of non-opaque pixels in colorDelta *)

\* side of the square plane of the blend inputs
BlendPlane == 3

\* pixels of several alphas: half transparent black and white, fully
\* transparent black, an almost opaque red, and two opaque grays
BlendColours ==
    {<<0, 0, 0, 128>>, <<255, 255, 255, 128>>, <<0, 0, 0, 0>>,
     <<200, 50, 50, 254>>, Black, Background}

\* one marked pixel whose two colours come from BlendColours, in inputs of
\* equal bounds; the first input is *image.NRGBA or another type
InitBlend ==
    /\ \E k1 \in {"NRGBA", "RGBA"} :
          imgs = << Image(k1, [w |-> BlendPlane, h |-> BlendPlane]),
                    Image("NRGBA", [w |-> BlendPlane, h |-> BlendPlane]),
                    Image("NRGBA", [w |-> BlendPlane, h |-> BlendPlane]) >>
    /\ marks \in (IF ReadsPixels(imgs)
                  THEN UNION {[{p} -> BlendColours \X BlendColours] :
                                 p \in Probes(BlendPlane, BlendPlane)}
                  ELSE {<<>>})
    /\ out = <<>>
    /\ writers = <<>>
    /\ pc = "start"
    /\ containerW = 0
    /\ containerH = 0
    /\ x0 = 0
    /\ y0 = 0
    /\ tasks = <<>>
    /\ diff = 0
    /\ wg = 0
    /\ ret = NoRet

SpecBlend == InitBlend /\ [][Next]_vars

\* 255 times the channel value 255 + (c - 255) * (a / 255)
ProportionalTimes255(c, a) == opaque * opaque + (c - opaque) * a

\* a stored channel value v is 255 + (c - 255) * (a / 255) up to rounding
IsProportionalBlend(v, c, a) ==
    Abs(opaque * v - ProportionalTimes255(c, a)) < opaque

\* the pixel c composited over white in proportion to its alpha, as an
\* opaque colour (channels rounded down)
CompositedOverWhite(c) ==
    IF c[4] < opaque
    THEN << ProportionalTimes255(c[1], c[4]) \div opaque,
            ProportionalTimes255(c[2], c[4]) \div opaque,
            ProportionalTimes255(c[3], c[4]) \div opaque, opaque >>
    ELSE c

\* C11: for every pixel a task has compared, colorDelta uses each channel c
\* of a pixel of alpha a < 255 as 255 + (c - 255) * (a / 255), uses a pixel
\* of alpha 255 unblended, and so the pixel is painted as a difference
\* exactly when the distance of the two composited colours is above the
\* threshold.
BlendIsProportional ==
    \A t \in DOMAIN tasks : \A p \in Visited(t) :
        /\ \A i \in {1, 2} :
              LET c == getColor(i, p)
              IN  IF c[4] < opaque
                  THEN \A k \in 1..3 : IsProportionalBlend(Composite(c)[k], c[k], c[4])
                  ELSE Composite(c) = c
        /\ (p \in DOMAIN out /\ out[p] = defaultOptions.diffColor)
              <=> (~colorEq(getColor(1, p), getColor(2, p))
                   /\ RLess(maxDelta(defaultOptions),
                            RAbs(colorDelta(CompositedOverWhite(getColor(1, p)),
                                            CompositedOverWhite(getColor(2, p)), FALSE))))

====
